---- MODULE Spec2Model ----
(***************************************************************************)
(* dotdep: actions (command, download, remove, symlink) with a preflight   *)
(* check shared by plan() and apply(), revert actions, and the path        *)
(* helpers of utils.ts, over a model of the filesystem the actions act on. *)
(*                                                                         *)
(* A path string is the sequence of its "/"-separated segments; the empty  *)
(* string is <<>>, an absolute path starts with the empty segment:         *)
(*   "~/s" = <<"~","s">>   "/h/s/f" = <<"","h","s","f">>   "d/f" = <<"d","f">> *)
(***************************************************************************)
EXTENDS Integers, Sequences, FiniteSets, TLC

VARIABLES
    HOME,     \* utils.ts HOME: the home directory read at import, or Undefined
    stub,     \* the platform function a test has stubbed to throw, or "none"
    act,      \* the action object under exercise (immutable configuration)
    fs,       \* the filesystem: resolved path -> entry
    hist,     \* the calls made on act (and on its revert action), oldest first
    actions,  \* the action objects in play: the argument of getRevertActions,
              \* or the instances allocated so far (SpecRepeat)
    reverts,  \* what getRevertActions returned, once called
    tasks     \* the apply() calls in flight at once, each with its position

vars == <<HOME, stub, act, fs, hist, actions, reverts, tasks>>

-----------------------------------------------------------------------------
(* Bounds of the model *)

\* distinct file contents
NumData == 2
\* modification times and Last-Modified times range over 0..MaxTime
MaxTime == 1
\* calls made on one action object in one behaviour
MaxCalls == 2
\* length of the sequence handed to getRevertActions
MaxLen == 3

Data == 1..NumData
Times == 0..MaxTime

-----------------------------------------------------------------------------
(* Paths *)

Undefined == <<"undefined">>

RootDir == <<"">>
HomeDir == <<"", "h">>
\* Deno.cwd()
Cwd == HomeDir

Last(p) == p[Len(p)]
\* dirname of a resolved path
dirname(p) == IF Len(p) <= 1 THEN p ELSE SubSeq(p, 1, Len(p) - 1)

RECURSIVE DropEmpty(_)
DropEmpty(segs) ==
    IF segs = <<>> THEN <<>>
    ELSE IF Head(segs) \in {"", "."} THEN DropEmpty(Tail(segs))
    ELSE <<Head(segs)>> \o DropEmpty(Tail(segs))

isAbsolute(p) == p # <<>> /\ Head(p) = ""

\* std/path normalize, for paths without ".." segments
normalize(p) ==
    IF isAbsolute(p) THEN <<"">> \o DropEmpty(p)
    ELSE IF DropEmpty(p) = <<>> THEN <<".">> ELSE DropEmpty(p)

\* std/path join(a, b)
join(a, b) == normalize(a \o b)

\* std/path resolve(p): absolute and normalized, relative to the cwd
resolve(p) == IF isAbsolute(p) THEN normalize(p) ELSE normalize(Cwd \o p)

\* faulty variant: every path that begins with a tilde is expanded
expandTilde_AnyTilde(path) ==
    IF path = <<>> THEN path
    ELSE IF HOME \in {Undefined, <<>>} THEN path
    ELSE IF path = <<"~">> THEN HOME
    ELSE IF Len(path) >= 2 /\ Head(path) \in {"~", "~other"} THEN join(HOME, Tail(path))
    ELSE path

\* an unset HOME and an empty one are both falsy
expandTilde(path) ==
    IF path = <<>> THEN path
    ELSE IF HOME \in {Undefined, <<>>} THEN path
    ELSE IF path = <<"~">> THEN HOME
    ELSE IF Len(path) >= 2 /\ Head(path) = "~" THEN join(HOME, Tail(path))
    ELSE path

\* resolvePath(path) without basedir
resolvePath(path) == resolve(expandTilde(path))

-----------------------------------------------------------------------------
(* The filesystem: entries, lookup, and the platform calls the actions use *)

PS   == <<"", "h", "s">>
PSF  == <<"", "h", "s", "f">>
PSFF == <<"", "h", "s", "f", "f">>
PD   == <<"", "h", "d">>
PDF  == <<"", "h", "d", "f">>
PDFF == <<"", "h", "d", "f", "f">>

Universe == {PS, PSF, PSFF, PD, PDF, PDFF}
\* what a symlink found on disk at the start may point to; a target one level
\* below the home directory keeps every path of the model inside Universe
LinkTargets == {PS, PD}

NoEntry    == [kind |-> "none", data |-> 0, mtime |-> 0, target |-> <<>>]
DirEntry   == [kind |-> "dir",  data |-> 0, mtime |-> 0, target |-> <<>>]
File(d, t) == [kind |-> "file", data |-> d, mtime |-> t, target |-> <<>>]
Link(to)   == [kind |-> "link", data |-> 0, mtime |-> 0, target |-> to]

entryAt(f, p) ==
    IF p \in {RootDir, HomeDir} THEN DirEntry
    ELSE IF p \in DOMAIN f THEN f[p]
    ELSE NoEntry

IsPrefix(p, q) == Len(p) <= Len(q) /\ SubSeq(q, 1, Len(p)) = p

Err(code) == <<"!", code>>
IsErr(r) == Head(r) = "!"

\* Path resolution as the kernel does it: walk the segments from the root,
\* following a symlink at every intermediate segment and, when follow is
\* set, at the last one. Yields the real path of the entry, or an error.
RECURSIVE walk(_, _, _, _, _)
walk(f, cur, rest, follow, fuel) ==
    IF rest = <<>> THEN cur
    ELSE LET nxt == Append(cur, Head(rest))
             e   == entryAt(f, nxt)
         IN  IF e.kind = "none" THEN Err("ENOENT")
             ELSE IF e.kind = "link" /\ (Len(rest) > 1 \/ follow) THEN
                 IF fuel = 0 THEN Err("ELOOP")
                 ELSE walk(f, RootDir, Tail(e.target) \o Tail(rest), follow, fuel - 1)
             ELSE IF Len(rest) > 1 /\ e.kind # "dir" THEN Err("ENOTDIR")
             ELSE walk(f, nxt, Tail(rest), follow, fuel)

MaxHops == Cardinality(Universe)

\* Deno.stat / Deno.realPath: the entry a path resolves to
statLoc(f, p) == walk(f, RootDir, Tail(p), TRUE, MaxHops)
\* Deno.lstat: the entry at the path itself
lstatLoc(f, p) == walk(f, RootDir, Tail(p), FALSE, MaxHops)

\* std/fs exists(): whether Deno.stat finds an entry (symlinks followed)
exists(f, p) == ~IsErr(statLoc(f, p))

\* Deno.realPath and Deno.lstat as the actions call them
realPath(f, p) == IF stub = "realPath" THEN Err("stubbed") ELSE statLoc(f, p)
lstat(f, p) == IF stub = "lstat" THEN Err("stubbed") ELSE lstatLoc(f, p)

Ok(f) == [fs |-> f, err |-> ""]
Fail(f, code) == [fs |-> f, err |-> code]

HasChildren(f, loc) ==
    \E q \in DOMAIN f : IsPrefix(loc, q) /\ q # loc /\ f[q].kind # "none"

\* Deno.remove(path, { recursive })
remove(f, p, recursive) ==
    LET loc == lstatLoc(f, p) IN
    IF stub = "remove" THEN Fail(f, "stubbed")
    ELSE IF IsErr(loc) THEN Fail(f, loc[2])
    ELSE IF entryAt(f, loc).kind = "dir" /\ ~recursive /\ HasChildren(f, loc)
        THEN Fail(f, "ENOTEMPTY")
    ELSE Ok([q \in DOMAIN f |-> IF IsPrefix(loc, q) THEN NoEntry ELSE f[q]])

\* Deno.mkdir(path, { recursive: true })
RECURSIVE mkdir(_, _)
mkdir(f, p) ==
    LET loc == statLoc(f, p) IN
    IF stub = "mkdir" THEN Fail(f, "stubbed")
    ELSE IF ~IsErr(loc) THEN
        IF entryAt(f, loc).kind = "dir" THEN Ok(f) ELSE Fail(f, "EEXIST")
    ELSE IF ~IsErr(lstatLoc(f, p)) THEN Fail(f, "EEXIST")
    ELSE LET r == mkdir(f, dirname(p)) IN
         IF r.err # "" THEN r
         ELSE LET ploc == statLoc(r.fs, dirname(p)) IN
              IF IsErr(ploc) THEN Fail(r.fs, ploc[2])
              ELSE Ok([r.fs EXCEPT ![Append(ploc, Last(p))] = DirEntry])

\* Deno.symlink(target, path)
symlink(f, target, p) ==
    LET ploc == statLoc(f, dirname(p)) IN
    IF stub = "symlink" THEN Fail(f, "stubbed")
    ELSE IF IsErr(ploc) THEN Fail(f, ploc[2])
    ELSE IF entryAt(f, ploc).kind # "dir" THEN Fail(f, "ENOTDIR")
    ELSE IF entryAt(f, Append(ploc, Last(p))).kind # "none" THEN Fail(f, "EEXIST")
    ELSE Ok([f EXCEPT ![Append(ploc, Last(p))] = Link(target)])

\* Deno.writeFile(path, data): create or truncate, through symlinks
RECURSIVE writeFileAt(_, _, _, _, _)
writeFileAt(f, p, d, now, fuel) ==
    LET ploc == statLoc(f, dirname(p)) IN
    IF IsErr(ploc) THEN Fail(f, ploc[2])
    ELSE IF entryAt(f, ploc).kind # "dir" THEN Fail(f, "ENOTDIR")
    ELSE LET loc == Append(ploc, Last(p))
             e   == entryAt(f, loc)
         IN  IF e.kind = "dir" THEN Fail(f, "EISDIR")
             ELSE IF e.kind = "link" THEN
                 IF fuel = 0 THEN Fail(f, "ELOOP")
                 ELSE writeFileAt(f, e.target, d, now, fuel - 1)
             ELSE Ok([f EXCEPT ![loc] = File(d, now)])

writeFile(f, p, d, now) ==
    IF stub = "writeFile" THEN Fail(f, "stubbed")
    ELSE writeFileAt(f, p, d, now, MaxHops)

-----------------------------------------------------------------------------
(* types.ts: results and the revertible capability *)

Success == "success"
Error   == "error"
Skip    == "skip"
\* a call whose promise rejects instead of resolving to a result
Thrown  == "thrown"

NoDetail == [msg |-> "undefined", arg |-> <<>>]
Result(status, msg, arg) == [status |-> status, detail |-> [msg |-> msg, arg |-> arg]]
SuccessResult == [status |-> Success, detail |-> NoDetail]
Caught(code) == Result(Error, "An error occurred", <<code>>)
\* an exception no try block of the method encloses: the call rejects with it
Rejected(code) == Result(Thrown, "rejected", <<code>>)

\* what a call did besides changing the filesystem
NoFx == [spawn |-> FALSE, head |-> FALSE, get |-> FALSE]
Outcome(r, f, x) == [result |-> r, fs |-> f, fx |-> x]

\* the methods an object of each class exposes
Methods(class) ==
    IF class \in {"SymlinkAction", "DownloadAction", "RevertibleCommandAction",
                  "RevertibleDummyAction"}
    THEN {"title", "plan", "apply", "getRevertAction"}
    ELSE {"title", "plan", "apply"}

isRevertibleAction(a) == "getRevertAction" \in Methods(a.class)

-----------------------------------------------------------------------------
(* actions/remove.ts *)

RemoveAction(path, recursive) ==
    [class |-> "RemoveAction", path |-> path, recursive |-> recursive]

\* remove({ path, recursive = false })
removeDefault(path) == RemoveAction(path, FALSE)

\* faulty variant: a missing target is not skipped
RemovePreflight_NoSkip(a, f) ==
    LET resolvedPath == resolvePath(a.path)
        info == lstat(f, resolvedPath)
    IN
    IF exists(f, resolvedPath) /\ IsErr(info) THEN Rejected(info[2])
    ELSE IF exists(f, resolvedPath) /\ entryAt(f, info).kind = "dir" /\ ~a.recursive
        THEN Result(Error, "Path is a directory (use recursive option to remove)", a.path)
    ELSE SuccessResult

\* faulty variant: the directory check is left out
RemovePreflight_NoDirCheck(a, f) ==
    LET resolvedPath == resolvePath(a.path) IN
    IF ~exists(f, resolvedPath) THEN Result(Skip, "File not found", a.path)
    ELSE SuccessResult

RemovePreflight(a, f) ==
    LET resolvedPath == resolvePath(a.path)
        info == lstat(f, resolvedPath)
    IN
    IF ~exists(f, resolvedPath) THEN Result(Skip, "File not found", a.path)
    ELSE IF IsErr(info) THEN Rejected(info[2])
    ELSE IF entryAt(f, info).kind = "dir" /\ ~a.recursive
        THEN Result(Error, "Path is a directory (use recursive option to remove)", a.path)
    ELSE SuccessResult

\* faulty variant: plan() performs the removal
RemovePlan_Removes(a, f) ==
    Outcome(RemovePreflight(a, f), remove(f, resolvePath(a.path), a.recursive).fs, NoFx)

RemovePlan(a, f) == Outcome(RemovePreflight(a, f), f, NoFx)

\* faulty variant: the recursive flag is not handed to Deno.remove
RemoveApply_NeverRecursive(a, f) ==
    LET state == RemovePreflight(a, f) IN
    IF state.status # Success THEN Outcome(state, f, NoFx)
    ELSE LET r == remove(f, resolvePath(a.path), FALSE) IN
         IF r.err = "" THEN Outcome(state, r.fs, NoFx)
         ELSE Outcome(Caught(r.err), r.fs, NoFx)

\* faulty variant: apply() reports Success without removing anything
RemoveApply_DryRun(a, f) ==
    LET state == RemovePreflight(a, f) IN Outcome(state, f, NoFx)

RemoveApply(a, f) ==
    LET state == RemovePreflight(a, f) IN
    IF state.status # Success THEN Outcome(state, f, NoFx)
    ELSE LET r == remove(f, resolvePath(a.path), a.recursive) IN
         IF r.err = "" THEN Outcome(state, r.fs, NoFx)
         ELSE Outcome(Caught(r.err), r.fs, NoFx)

-----------------------------------------------------------------------------
(* actions/symlink.ts *)

SymlinkAction(src, dest, overwrite) ==
    [class |-> "SymlinkAction", src |-> src, dest |-> dest, overwrite |-> overwrite]

\* faulty variant: paths are compared as written, not by their real paths
SymlinkPreflight_NoRealPath(a, f) ==
    LET resolvedSrc  == resolvePath(a.src)
        resolvedDest == resolvePath(a.dest)
        srcExists    == exists(f, resolvedSrc)
        destExists   == exists(f, resolvedDest)
        isSameLink   == destExists /\ resolvedDest = resolvedSrc
    IN  IF isSameLink THEN Result(Skip, "Symlink already exists and is correct.", <<>>)
        ELSE IF ~srcExists THEN Result(Error, "Source not found", a.src)
        ELSE IF destExists /\ ~a.overwrite
            THEN Result(Error, "Destination already exists and is not the correct symlink", a.dest)
        ELSE SuccessResult

\* faulty variant: the destination check comes before the source check
SymlinkPreflight_DestFirst(a, f) ==
    LET resolvedSrc  == resolvePath(a.src)
        resolvedDest == resolvePath(a.dest)
        srcExists    == exists(f, resolvedSrc)
        destExists   == exists(f, resolvedDest)
        isSameLink   == /\ destExists
                        /\ ~IsErr(realPath(f, resolvedDest))
                        /\ ~IsErr(realPath(f, resolvedSrc))
                        /\ realPath(f, resolvedDest) = realPath(f, resolvedSrc)
    IN  IF isSameLink THEN Result(Skip, "Symlink already exists and is correct.", <<>>)
        ELSE IF destExists /\ ~a.overwrite
            THEN Result(Error, "Destination already exists and is not the correct symlink", a.dest)
        ELSE IF ~srcExists THEN Result(Error, "Source not found", a.src)
        ELSE SuccessResult

SymlinkPreflight(a, f) ==
    LET resolvedSrc  == resolvePath(a.src)
        resolvedDest == resolvePath(a.dest)
        srcExists    == exists(f, resolvedSrc)
        destExists   == exists(f, resolvedDest)
        isSameLink   == /\ destExists
                        /\ ~IsErr(realPath(f, resolvedDest))
                        /\ ~IsErr(realPath(f, resolvedSrc))
                        /\ realPath(f, resolvedDest) = realPath(f, resolvedSrc)
    IN  IF isSameLink THEN Result(Skip, "Symlink already exists and is correct.", <<>>)
        ELSE IF ~srcExists THEN Result(Error, "Source not found", a.src)
        ELSE IF destExists /\ ~a.overwrite
            THEN Result(Error, "Destination already exists and is not the correct symlink", a.dest)
        ELSE SuccessResult

SymlinkPlan(a, f) == Outcome(SymlinkPreflight(a, f), f, NoFx)

\* faulty variant: only an Error preflight stops apply()
SymlinkApply_SkipGoesOn(a, f) ==
    LET state == SymlinkPreflight(a, f) IN
    IF state.status = Error THEN Outcome(state, f, NoFx)
    ELSE LET resolvedSrc  == resolvePath(a.src)
             resolvedDest == resolvePath(a.dest)
             destDir      == dirname(resolvedDest)
             r1 == IF ~exists(f, destDir) THEN mkdir(f, destDir) ELSE Ok(f)
             r2 == IF r1.err # "" THEN r1
                   ELSE IF exists(r1.fs, resolvedDest) THEN remove(r1.fs, resolvedDest, TRUE)
                   ELSE r1
             r3 == IF r2.err # "" THEN r2 ELSE symlink(r2.fs, resolvedSrc, resolvedDest)
         IN  IF r3.err = "" THEN Outcome(state, r3.fs, NoFx)
             ELSE Outcome(Caught(r3.err), r3.fs, NoFx)

SymlinkApply(a, f) ==
    LET state == SymlinkPreflight(a, f) IN
    IF state.status # Success THEN Outcome(state, f, NoFx)
    ELSE LET resolvedSrc  == resolvePath(a.src)
             resolvedDest == resolvePath(a.dest)
             destDir      == dirname(resolvedDest)
             r1 == IF ~exists(f, destDir) THEN mkdir(f, destDir) ELSE Ok(f)
             r2 == IF r1.err # "" THEN r1
                   ELSE IF exists(r1.fs, resolvedDest) THEN remove(r1.fs, resolvedDest, TRUE)
                   ELSE r1
             r3 == IF r2.err # "" THEN r2 ELSE symlink(r2.fs, resolvedSrc, resolvedDest)
         IN  IF r3.err = "" THEN Outcome(state, r3.fs, NoFx)
             ELSE Outcome(Caught(r3.err), r3.fs, NoFx)

SymlinkGetRevertAction(a) == removeDefault(a.dest)

-----------------------------------------------------------------------------
(* actions/download.ts *)

DownloadAction(url, dest, overwrite, timestamping) ==
    [class |-> "DownloadAction", url |-> url, dest |-> dest,
     overwrite |-> overwrite, timestamping |-> timestamping]

\* A URL stands for what its server answers: the HEAD response (ok, notok, or
\* the request throws), its Last-Modified header (none, an unparsable value,
\* or a date), the GET response, and the body.
Url(head, lmKind, lmTime, get, body) ==
    [head |-> head, lmKind |-> lmKind, lmTime |-> lmTime, get |-> get, body |-> body]

HeadFx == [spawn |-> FALSE, head |-> TRUE, get |-> FALSE]
GetFx  == [spawn |-> FALSE, head |-> TRUE, get |-> TRUE]

\* faulty variant: the HEAD request is sent before the destination is looked at
DownloadPreflight_HeadFirst(a, f) ==
    LET resolvedDest == resolvePath(a.dest) IN
    IF stub = "fetch" \/ a.url.head = "throw"
        THEN [result |-> Result(Error, "Failed to check URL", <<>>), fx |-> HeadFx]
    ELSE IF a.url.head # "ok"
        THEN [result |-> Result(Error, "URL is not available", <<>>), fx |-> HeadFx]
    ELSE IF exists(f, resolvedDest) /\ ~a.overwrite
        THEN [result |-> Result(Error, "Destination already exists", a.dest), fx |-> HeadFx]
    ELSE IF /\ exists(f, resolvedDest) /\ a.timestamping /\ a.url.lmKind = "date"
            /\ entryAt(f, statLoc(f, resolvedDest)).mtime >= a.url.lmTime
        THEN [result |-> Result(Skip, "Local file is up-to-date.", <<>>), fx |-> HeadFx]
    ELSE [result |-> SuccessResult, fx |-> HeadFx]

\* faulty variant: the status of the HEAD response is not looked at
DownloadPreflight_AnyStatus(a, f) ==
    LET resolvedDest == resolvePath(a.dest) IN
    IF exists(f, resolvedDest) /\ ~a.overwrite
        THEN [result |-> Result(Error, "Destination already exists", a.dest), fx |-> NoFx]
    ELSE IF stub = "fetch" \/ a.url.head = "throw"
        THEN [result |-> Result(Error, "Failed to check URL", <<>>), fx |-> HeadFx]
    ELSE IF /\ exists(f, resolvedDest) /\ a.timestamping /\ a.url.lmKind = "date"
            /\ entryAt(f, statLoc(f, resolvedDest)).mtime >= a.url.lmTime
        THEN [result |-> Result(Skip, "Local file is up-to-date.", <<>>), fx |-> HeadFx]
    ELSE [result |-> SuccessResult, fx |-> HeadFx]

\* yields the result and whether the HEAD request was made
\* faulty variant: an existing destination is never refused
DownloadPreflight_NoOverwriteCheck(a, f) ==
    LET resolvedDest == resolvePath(a.dest) IN
    IF stub = "fetch" \/ a.url.head = "throw"
        THEN [result |-> Result(Error, "Failed to check URL", <<>>), fx |-> HeadFx]
    ELSE IF a.url.head # "ok"
        THEN [result |-> Result(Error, "URL is not available", <<>>), fx |-> HeadFx]
    ELSE IF /\ exists(f, resolvedDest) /\ a.timestamping /\ a.url.lmKind = "date"
            /\ entryAt(f, statLoc(f, resolvedDest)).mtime >= a.url.lmTime
        THEN [result |-> Result(Skip, "Local file is up-to-date.", <<>>), fx |-> HeadFx]
    ELSE [result |-> SuccessResult, fx |-> HeadFx]

DownloadPreflight(a, f) ==
    LET resolvedDest == resolvePath(a.dest) IN
    IF exists(f, resolvedDest) /\ ~a.overwrite
        THEN [result |-> Result(Error, "Destination already exists", a.dest), fx |-> NoFx]
    ELSE IF stub = "fetch" \/ a.url.head = "throw"
        THEN [result |-> Result(Error, "Failed to check URL", <<>>), fx |-> HeadFx]
    ELSE IF a.url.head # "ok"
        THEN [result |-> Result(Error, "URL is not available", <<>>), fx |-> HeadFx]
    ELSE IF /\ exists(f, resolvedDest) /\ a.timestamping /\ a.url.lmKind = "date"
            /\ entryAt(f, statLoc(f, resolvedDest)).mtime >= a.url.lmTime
        THEN [result |-> Result(Skip, "Local file is up-to-date.", <<>>), fx |-> HeadFx]
    ELSE [result |-> SuccessResult, fx |-> HeadFx]

DownloadPlan(a, f) ==
    LET pre == DownloadPreflight(a, f) IN Outcome(pre.result, f, pre.fx)

\* faulty variant: the body is written whatever the status of the GET response
DownloadApply_AnyStatus(a, f, now) ==
    LET pre == DownloadPreflight(a, f) IN
    IF pre.result.status # Success THEN Outcome(pre.result, f, pre.fx)
    ELSE LET resolvedDest == resolvePath(a.dest)
             dir == dirname(resolvedDest)
             r1  == IF ~exists(f, dir) THEN mkdir(f, dir) ELSE Ok(f)
         IN  IF r1.err # "" THEN Outcome(Caught(r1.err), r1.fs, HeadFx)
             ELSE IF a.url.get = "throw" THEN Outcome(Caught("fetch"), r1.fs, GetFx)
             ELSE LET r2 == writeFile(r1.fs, resolvedDest, a.url.body, now) IN
                  IF r2.err = "" THEN Outcome(SuccessResult, r2.fs, GetFx)
                  ELSE Outcome(Caught(r2.err), r2.fs, GetFx)

DownloadApply(a, f, now) ==
    LET pre == DownloadPreflight(a, f) IN
    IF pre.result.status # Success THEN Outcome(pre.result, f, pre.fx)
    ELSE LET resolvedDest == resolvePath(a.dest)
             dir == dirname(resolvedDest)
             r1  == IF ~exists(f, dir) THEN mkdir(f, dir) ELSE Ok(f)
         IN  IF r1.err # "" THEN Outcome(Caught(r1.err), r1.fs, HeadFx)
             ELSE IF a.url.get = "throw" THEN Outcome(Caught("fetch"), r1.fs, GetFx)
             ELSE IF a.url.get # "ok"
                 THEN Outcome(Result(Error, "Failed to fetch", <<>>), r1.fs, GetFx)
             ELSE LET r2 == writeFile(r1.fs, resolvedDest, a.url.body, now) IN
                  IF r2.err = "" THEN Outcome(SuccessResult, r2.fs, GetFx)
                  ELSE Outcome(Caught(r2.err), r2.fs, GetFx)

\* faulty variant: the revert targets the resolved destination
DownloadGetRevertAction_Resolved(a) == removeDefault(resolvePath(a.dest))

DownloadGetRevertAction(a) == removeDefault(a.dest)

-----------------------------------------------------------------------------
(* actions/command.ts *)

Inherit == "inherit"
Capture == "capture"

CommandAction(command, stdout, stderr, env, cwd) ==
    [class |-> "CommandAction", command |-> command, stdout |-> stdout,
     stderr |-> stderr, env |-> env, cwd |-> cwd]

RevertibleCommandAction(command, stdout, stderr, env, cwd, revertCommand) ==
    [class |-> "RevertibleCommandAction", command |-> command, stdout |-> stdout,
     stderr |-> stderr, env |-> env, cwd |-> cwd, revertCommand |-> revertCommand]

\* an omitted (undefined) command vector; a given one is never empty
NoVector == <<>>

\* faulty variant: the revert command is dropped
command_AlwaysPlain(cmd, revertCommand, stdout, stderr, env, cwd) ==
    CommandAction(cmd, stdout, stderr, env, cwd)

\* command({ command, revertCommand, stdout, stderr, env, cwd })
command(cmd, revertCommand, stdout, stderr, env, cwd) ==
    IF revertCommand = NoVector
    THEN CommandAction(cmd, stdout, stderr, env, cwd)
    ELSE RevertibleCommandAction(cmd, stdout, stderr, env, cwd, revertCommand)

\* the executables `which` finds
Installed == {<<"sh">>, <<"", "h", "tool">>}

isCommandAvailable(cmd) == stub # "Command" /\ expandTilde(cmd) \in Installed

\* String.prototype.trim on the texts a process may write
trim(text) ==
    CASE text = " "    -> ""
      [] text = " hi " -> "hi"
      [] OTHER         -> text

\* faulty variant: the executable is not looked for
CommandPreflight_NoProbe(a) == SuccessResult

CommandPreflight(a) ==
    LET cmd == a.command[1] IN
    IF ~isCommandAvailable(cmd) THEN Result(Error, "Command not found", cmd)
    ELSE SuccessResult

CommandPlan(a, f) == Outcome(CommandPreflight(a), f, NoFx)

SpawnFx == [spawn |-> TRUE, head |-> FALSE, get |-> FALSE]

\* faulty variant: anything written to stderr counts as a failure
CommandApply_StderrFails(a, f, proc) ==
    LET state == CommandPreflight(a) IN
    IF state.status # Success THEN Outcome(state, f, NoFx)
    ELSE IF proc.throws THEN Outcome(Caught("spawn"), f, NoFx)
    ELSE LET out == IF a.stdout = Capture /\ trim(proc.stdout) # ""
                    THEN <<"stdout:", trim(proc.stdout)>> ELSE <<>>
             err == IF a.stderr = Capture /\ trim(proc.stderr) # ""
                    THEN <<"stderr:", trim(proc.stderr)>> ELSE <<>>
             detail == IF out \o err = <<>> THEN NoDetail
                       ELSE [msg |-> "output", arg |-> out \o err]
         IN  Outcome([status |-> IF proc.code = 0 /\ trim(proc.stderr) = ""
                                 THEN Success ELSE Error,
                      detail |-> detail], f, SpawnFx)

\* faulty variant: the captured text is not trimmed before it is tested
CommandApply_NoTrim(a, f, proc) ==
    LET state == CommandPreflight(a) IN
    IF state.status # Success THEN Outcome(state, f, NoFx)
    ELSE IF proc.throws THEN Outcome(Caught("spawn"), f, NoFx)
    ELSE LET out == IF a.stdout = Capture /\ proc.stdout # ""
                    THEN <<"stdout:", trim(proc.stdout)>> ELSE <<>>
             err == IF a.stderr = Capture /\ proc.stderr # ""
                    THEN <<"stderr:", trim(proc.stderr)>> ELSE <<>>
             detail == IF out \o err = <<>> THEN NoDetail
                       ELSE [msg |-> "output", arg |-> out \o err]
         IN  Outcome([status |-> IF proc.code = 0 THEN Success ELSE Error,
                      detail |-> detail], f, SpawnFx)

\* proc: what the spawned process does (exit code, what it writes)
CommandApply(a, f, proc) ==
    LET state == CommandPreflight(a) IN
    IF state.status # Success THEN Outcome(state, f, NoFx)
    ELSE IF proc.throws THEN Outcome(Caught("spawn"), f, NoFx)
    ELSE LET out == IF a.stdout = Capture /\ trim(proc.stdout) # ""
                    THEN <<"stdout:", trim(proc.stdout)>> ELSE <<>>
             err == IF a.stderr = Capture /\ trim(proc.stderr) # ""
                    THEN <<"stderr:", trim(proc.stderr)>> ELSE <<>>
             detail == IF out \o err = <<>> THEN NoDetail
                       ELSE [msg |-> "output", arg |-> out \o err]
         IN  Outcome([status |-> IF proc.code = 0 THEN Success ELSE Error,
                      detail |-> detail], f, SpawnFx)

\* faulty variant: the revert command runs in the default working directory
CommandGetRevertAction_NoCwd(a) ==
    CommandAction(a.revertCommand, a.stdout, a.stderr, a.env, Undefined)

CommandGetRevertAction(a) ==
    CommandAction(a.revertCommand, a.stdout, a.stderr, a.env, a.cwd)

-----------------------------------------------------------------------------
(* utils.ts: getRevertActions, and the dispatch of the Action interface *)

\* the test suite's actions without side effects
DummyAction(title) == [class |-> "DummyAction", title |-> title]
RevertibleDummyAction(title, revertTitle) ==
    [class |-> "RevertibleDummyAction", title |-> title, revertTitle |-> revertTitle]

getRevertAction(a) ==
    CASE a.class = "SymlinkAction"           -> SymlinkGetRevertAction(a)
      [] a.class = "DownloadAction"          -> DownloadGetRevertAction(a)
      [] a.class = "RevertibleCommandAction" -> CommandGetRevertAction(a)
      [] a.class = "RevertibleDummyAction"   -> DummyAction(a.revertTitle)

Reverse(s) == [i \in 1..Len(s) |-> s[Len(s) + 1 - i]]

\* faulty variant: the reverts stay in input order
getRevertActions_InOrder(as) ==
    LET kept == SelectSeq(as, isRevertibleAction)
    IN  [i \in 1..Len(kept) |-> getRevertAction(kept[i])]

getRevertActions(as) ==
    LET kept   == SelectSeq(as, isRevertibleAction)
        mapped == [i \in 1..Len(kept) |-> getRevertAction(kept[i])]
    IN  Reverse(mapped)

\* what the platform feeds an apply(): the clock at a write, the spawned process
Proc(code, out, err, throws) ==
    [code |-> code, stdout |-> out, stderr |-> err, throws |-> throws]
NoProc == Proc(0, "", "", FALSE)
Input(now, proc) == [now |-> now, proc |-> proc]

plan(a, f) ==
    CASE a.class = "RemoveAction"   -> RemovePlan(a, f)
      [] a.class = "SymlinkAction"  -> SymlinkPlan(a, f)
      [] a.class = "DownloadAction" -> DownloadPlan(a, f)
      [] a.class \in {"CommandAction", "RevertibleCommandAction"} -> CommandPlan(a, f)
      [] OTHER -> Outcome(SuccessResult, f, NoFx)

apply(a, f, io) ==
    CASE a.class = "RemoveAction"   -> RemoveApply(a, f)
      [] a.class = "SymlinkAction"  -> SymlinkApply(a, f)
      [] a.class = "DownloadAction" -> DownloadApply(a, f, io.now)
      [] a.class \in {"CommandAction", "RevertibleCommandAction"} -> CommandApply(a, f, io.proc)
      [] OTHER -> Outcome(SuccessResult, f, NoFx)

-----------------------------------------------------------------------------
(* The configurations and starting filesystems the model ranges over *)

SrcPaths    == {<<"~", "s">>, <<"", "h", "s", "f">>, <<"d">>}
DestPaths   == {<<"~", "s">>, <<"~", "d">>, <<"d", "f">>, <<"~", "d", "f", "f">>}
RemovePaths == {<<"~", "s">>, <<"", "h", "s", "f">>, <<"~", "d">>, <<"d", "f">>,
                <<"~", "d", "f", "f">>}
DownloadDests == {<<"~", "d">>, <<"~", "d", "f", "f">>}

SymlinkActs == {SymlinkAction(s, d, o) : s \in SrcPaths, d \in DestPaths, o \in BOOLEAN}
RemoveActs  == {RemoveAction(p, r) : p \in RemovePaths, r \in BOOLEAN}

Urls ==
    {Url("ok", "none", 0, "ok", b) : b \in Data}
    \cup {Url("ok", "date", t, "ok", NumData) : t \in Times}
    \cup {Url("ok", "invalid", 0, "ok", 1), Url("notok", "none", 0, "ok", 1),
          Url("throw", "none", 0, "ok", 1), Url("ok", "none", 0, "notok", 1),
          Url("ok", "none", 0, "throw", 1)}

DownloadActs ==
    {DownloadAction(u, d, o, t) : u \in Urls, d \in DownloadDests,
                                  o \in BOOLEAN, t \in BOOLEAN}

Vectors == {<<<<"sh">>>>, <<<<"~", "tool">>>>, <<<<"nope">>>>}
CommandActs ==
    {command(c, r, o, e, <<>>, Undefined) :
        c \in Vectors, r \in {NoVector, <<<<"sh">>>>, <<<<"nope">>>>},
        o \in {Inherit, Capture}, e \in {Inherit, Capture}}

Texts == {"", " ", " hi "}
\* exit codes of the spawned process
ExitCodes == {0, 1, 255}
\* what a process writes to <<stdout, stderr>>: blanks only, one stream, both
Outputs == {w \in Texts \X Texts :
               w \in {<<" ", "">>, <<"", " hi ">>, <<" hi ", " ">>, <<" hi ", " hi ">>}}
Procs == {Proc(c, w[1], w[2], FALSE) : c \in ExitCodes, w \in Outputs}
         \cup {Proc(0, "", "", TRUE)}

Inputs(a) ==
    CASE a.class = "DownloadAction" -> {Input(t, NoProc) : t \in Times}
      [] a.class \in {"CommandAction", "RevertibleCommandAction"}
            -> {Input(0, p) : p \in Procs}
      [] OTHER -> {Input(0, NoProc)}

Entries(times) ==
    {NoEntry, DirEntry} \cup {File(d, t) : d \in Data, t \in times}
    \cup {Link(to) : to \in LinkTargets}

WellFormed(f) ==
    \A p \in DOMAIN f : f[p].kind # "none" => entryAt(f, dirname(p)).kind = "dir"

\* the filesystems over a directory chain p1/p2/p3
Chain(ps, times) == {f \in [ps -> Entries(times)] : WellFormed(f)}
Absent(ps) == [p \in ps |-> NoEntry]

SChain == {PS, PSF, PSFF}
DChain == {PD, PDF, PDFF}

\* every filesystem over Universe; mtimes matter to downloads only
TreeFS     == {a @@ b : a \in Chain(SChain, {0}), b \in Chain(DChain, {0})}
DownloadFS == {Absent(SChain) @@ b : b \in Chain(DChain, Times)}
EmptyFS    == Absent(Universe)

-----------------------------------------------------------------------------
(* The state machine: an action object is constructed, then plan(), apply() *)
(* and apply() of its revert action are called on it in any order.          *)

\* io: what the platform fed the call (the clock, the spawned process)
Call(op, on, o, before, io) ==
    [op |-> op, on |-> on, result |-> o.result, before |-> before, fx |-> o.fx,
     io |-> io]

InitOf(as, fss) ==
    /\ HOME = HomeDir
    /\ stub = "none"
    /\ act \in as
    /\ fs \in fss
    /\ hist = <<>>
    /\ actions = <<>>
    /\ reverts = <<>>
    /\ tasks = <<>>

Plan ==
    /\ Len(hist) < MaxCalls
    /\ LET o == plan(act, fs) IN
        /\ fs' = o.fs
        /\ hist' = Append(hist, Call("plan", act, o, fs, Input(0, NoProc)))
    /\ UNCHANGED <<HOME, stub, act, actions, reverts, tasks>>

Apply ==
    /\ Len(hist) < MaxCalls
    /\ \E io \in Inputs(act) :
        LET o == apply(act, fs, io) IN
        /\ fs' = o.fs
        /\ hist' = Append(hist, Call("apply", act, o, fs, io))
    /\ UNCHANGED <<HOME, stub, act, actions, reverts, tasks>>

ApplyRevert ==
    /\ Len(hist) < MaxCalls
    /\ isRevertibleAction(act)
    /\ \E io \in Inputs(getRevertAction(act)) :
        LET o == apply(getRevertAction(act), fs, io) IN
        /\ fs' = o.fs
        /\ hist' = Append(hist, Call("apply", getRevertAction(act), o, fs, io))
    /\ UNCHANGED <<HOME, stub, act, actions, reverts, tasks>>

InitRemove   == InitOf(RemoveActs, TreeFS)
InitSymlink  == InitOf(SymlinkActs, TreeFS)
InitDownload == InitOf(DownloadActs, DownloadFS)
InitCommand  == InitOf(CommandActs, {EmptyFS})

Init == InitRemove \/ InitSymlink \/ InitDownload \/ InitCommand

Next == Plan \/ Apply \/ ApplyRevert

\* every action kind
Spec == Init /\ [][Next]_vars

SpecRemove == InitRemove /\ [][Plan \/ Apply]_vars

SpecSymlink == InitSymlink /\ [][Next]_vars

SpecDownload == InitDownload /\ [][Next]_vars

SpecCommand == InitCommand /\ [][Next]_vars

-----------------------------------------------------------------------------
(* getRevertActions as a call on a sequence of action objects *)

ListActions ==
    {RemoveAction(<<"~", "d">>, TRUE),
     SymlinkAction(<<"~", "s">>, <<"~", "d">>, FALSE),
     DownloadAction(Url("ok", "none", 0, "ok", 1), <<"d", "f">>, FALSE, FALSE),
     command(<<<<"sh">>>>, NoVector, Capture, Capture, <<>>, Undefined),
     command(<<<<"sh">>>>, <<<<"nope">>>>, Inherit, Capture, <<>>, Undefined),
     DummyAction("A1"),
     RevertibleDummyAction("A2", "A2-revert")}

SeqsUpTo(S, n) == UNION {[1..k -> S] : k \in 0..n}

InitRevert ==
    /\ HOME = HomeDir
    /\ stub = "none"
    /\ act = DummyAction("none")
    /\ fs = EmptyFS
    /\ hist = <<>>
    /\ actions \in SeqsUpTo(ListActions, MaxLen)
    /\ reverts = <<>>
    /\ tasks = <<>>

GetRevertActions ==
    /\ hist = <<>>
    /\ reverts' = getRevertActions(actions)
    /\ hist' = <<[op |-> "getRevertActions", on |-> act, result |-> SuccessResult,
                  before |-> fs, fx |-> NoFx, io |-> Input(0, NoProc)]>>
    /\ UNCHANGED <<HOME, stub, act, fs, actions, tasks>>

SpecRevert == InitRevert /\ [][GetRevertActions]_vars

-----------------------------------------------------------------------------
(* Fault injection: one platform function throws on every call, as the test *)
(* suite's stub(Deno, ...) makes it.                                        *)

Stubs == {"lstat", "realPath", "remove", "mkdir", "symlink", "writeFile", "fetch", "Command"}

\* filesystems of plain files and directories
FaultFS ==
    {f \in TreeFS : \A p \in DOMAIN f : f[p].kind # "link" /\ f[p].data \in {0, 1}}

FaultActs ==
    RemoveActs \cup SymlinkActs
    \cup {a \in DownloadActs : a.url = Url("ok", "none", 0, "ok", 1) /\ ~a.timestamping}

FaultCommands ==
    {a \in CommandActs : a.class = "CommandAction" /\ a.stdout = Capture /\ a.stderr = Capture}

InitFault ==
    /\ HOME = HomeDir
    /\ stub \in Stubs
    /\ \/ act \in FaultActs /\ fs \in FaultFS
       \/ act \in FaultCommands /\ fs = EmptyFS
    /\ hist = <<>>
    /\ actions = <<>>
    /\ reverts = <<>>
    /\ tasks = <<>>

SpecFault == InitFault /\ [][Plan \/ Apply]_vars

-----------------------------------------------------------------------------
(* expandTilde as a call on a path, under each value HOME may have *)

Homes == {HomeDir, <<"", "r", "u">>, Undefined}

\* '', '~', '~/foo', '~/a/b', '~/', '/absolute/path', 'relative/path',
\* '~other', '~other/x', 'a/~'
TildePaths ==
    {<<>>, <<"~">>, <<"~", "foo">>, <<"~", "a", "b">>, <<"~", "">>,
     <<"", "absolute", "path">>, <<"relative", "path">>,
     <<"~other">>, <<"~other", "x">>, <<"a", "~">>}

InitExpand ==
    /\ HOME \in Homes
    /\ stub = "none"
    /\ act = DummyAction("none")
    /\ fs = EmptyFS
    /\ hist = <<>>
    /\ actions = <<>>
    /\ reverts = <<>>
    /\ tasks = <<>>

ExpandTilde ==
    /\ Len(hist) < MaxCalls
    /\ \E path \in TildePaths :
        hist' = Append(hist, [op |-> "expandTilde", args |-> path,
                              result |-> expandTilde(path)])
    /\ UNCHANGED <<HOME, stub, act, fs, actions, reverts, tasks>>

SpecExpand == InitExpand /\ [][ExpandTilde]_vars

-----------------------------------------------------------------------------
(* The factories and the revertible capability: an action is built from its *)
(* parameters, then asked for its revert action, directly and through       *)
(* getRevertActions.                                                        *)

Envs == {<<>>, <<"K=V">>}
Cwds == {Undefined, <<"~", "w">>}
RevertVectors == {NoVector, <<<<"sh">>>>, <<<<"nope">>, <<"-v">>>>}

CommandParams ==
    [command : Vectors, revertCommand : RevertVectors, stdout : {Inherit, Capture},
     stderr : {Inherit, Capture}, env : Envs, cwd : Cwds]

\* the parameters of a factory call that gives no command
NoParams ==
    [command |-> NoVector, revertCommand |-> NoVector, stdout |-> Capture,
     stderr |-> Capture, env |-> <<>>, cwd |-> Undefined]

InitFactory ==
    /\ HOME = HomeDir
    /\ stub = "none"
    /\ act = DummyAction("none")
    /\ fs = EmptyFS
    /\ hist = <<>>
    /\ actions = <<>>
    /\ reverts = <<>>
    /\ tasks = <<>>

NewCommand ==
    /\ hist = <<>>
    /\ \E p \in CommandParams :
        /\ act' = command(p.command, p.revertCommand, p.stdout, p.stderr, p.env, p.cwd)
        /\ hist' = <<[op |-> "command", args |-> p]>>
    /\ UNCHANGED <<HOME, stub, fs, actions, reverts, tasks>>

NewFileAction ==
    /\ hist = <<>>
    /\ act' \in RemoveActs \cup SymlinkActs \cup DownloadActs
    /\ hist' = <<[op |-> "new", args |-> NoParams]>>
    /\ UNCHANGED <<HOME, stub, fs, actions, reverts, tasks>>

GetRevertAction ==
    /\ hist # <<>>
    /\ isRevertibleAction(act)
    /\ Len(reverts) < MaxCalls
    /\ reverts' = Append(reverts, getRevertAction(act))
    /\ UNCHANGED <<HOME, stub, act, fs, hist, actions, tasks>>

CollectReverts ==
    /\ Len(hist) = 1
    /\ actions' = getRevertActions(<<act>>)
    /\ hist' = Append(hist, [op |-> "getRevertActions", args |-> hist[1].args])
    /\ UNCHANGED <<HOME, stub, act, fs, reverts, tasks>>

SpecFactory ==
    InitFactory /\ [][NewCommand \/ NewFileAction \/ GetRevertAction \/ CollectReverts]_vars

-----------------------------------------------------------------------------
(* getRevertAction called repeatedly, before and after plan() and apply().   *)
(* Objects have identity here: `actions` is the heap of the instances        *)
(* allocated so far, an instance's reference is its index, and the action    *)
(* under exercise is the instance at OriginalRef.                            *)

OriginalRef == 1

\* faulty variant: an equal instance allocated earlier is handed out again
New_Interned(heap, obj) ==
    IF \E i \in DOMAIN heap : heap[i] = obj
    THEN [ref |-> CHOOSE i \in DOMAIN heap : heap[i] = obj, heap |-> heap]
    ELSE [ref |-> Len(heap) + 1, heap |-> Append(heap, obj)]

\* `new X(...)`: a fresh instance, distinct from every instance allocated before
New(heap, obj) ==
    [ref |-> Len(heap) + 1, heap |-> Append(heap, obj)]

RepeatActs ==
    {SymlinkAction(<<"~", "s">>, <<"~", "d">>, FALSE),
     SymlinkAction(<<"~", "s", "f">>, <<"d", "f">>, TRUE),
     DownloadAction(Url("ok", "none", 0, "ok", 1), <<"~", "d", "f">>, FALSE, FALSE),
     DownloadAction(Url("ok", "none", 0, "throw", 1), <<"d">>, TRUE, FALSE),
     command(<<<<"sh">>>>, <<<<"nope">>>>, Inherit, Capture, <<>>, Undefined),
     command(<<<<"nope">>>>, <<<<"sh">>, <<"-v">>>>, Capture, Inherit, <<"K=V">>,
             <<"~", "w">>)}

RepeatFS == {f \in TreeFS : \A p \in DChain : f[p].kind = "none"}

InitRepeat ==
    /\ HOME = HomeDir
    /\ stub = "none"
    /\ act \in RepeatActs
    /\ fs \in RepeatFS
    /\ hist = <<>>
    /\ actions = New(<<>>, act).heap
    /\ reverts = <<>>
    /\ tasks = <<>>

\* act.getRevertAction(): the call record's result is the returned reference
CallGetRevertAction ==
    /\ Len(hist) < MaxCalls
    /\ LET n == New(actions, getRevertAction(actions[OriginalRef])) IN
        /\ actions' = n.heap
        /\ hist' = Append(hist, [op |-> "getRevertAction", on |-> act,
                                 result |-> n.ref, before |-> fs, fx |-> NoFx,
                                 io |-> Input(0, NoProc)])
    /\ UNCHANGED <<HOME, stub, act, fs, reverts, tasks>>

SpecRepeat == InitRepeat /\ [][Plan \/ Apply \/ CallGetRevertAction]_vars

-----------------------------------------------------------------------------
(* Two apply() calls in flight at once. A call runs from one await of        *)
(* platform I/O to the next without interruption; between two awaits the     *)
(* other call may run. A task holds the action, the await it is suspended    *)
(* at, the locals that live across awaits, and its result once it is done.   *)

PSG == <<"", "h", "s", "g">>
PDG == <<"", "h", "d", "g">>
RaceUniverse == {PS, PSF, PSG, PD, PDF, PDG}

NewTask(a, f) ==
    [a |-> a, pc |-> "start", srcExists |-> FALSE, destExists |-> FALSE,
     realDest |-> <<>>, result |-> Result("pending", "pending", <<>>), before |-> f]

Goto(t, pc) == [t EXCEPT !.pc = pc]
Done(t, r) == [t EXCEPT !.pc = "done", !.result = r]
Stepped(t, f) == [t |-> t, fs |-> f]

\* the code of getPreflightResult after its probes, which awaits nothing
SymlinkDecide(t, isSameLink) ==
    IF isSameLink THEN Done(t, Result(Skip, "Symlink already exists and is correct.", <<>>))
    ELSE IF ~t.srcExists THEN Done(t, Result(Error, "Source not found", t.a.src))
    ELSE IF t.destExists /\ ~t.a.overwrite
        THEN Done(t, Result(Error, "Destination already exists and is not the correct symlink",
                            t.a.dest))
    ELSE Goto(t, "existsDir")

\* faulty variant: a directory that exists by now makes mkdir fail
MkdirStep_Exclusive(t, f, dir, next) ==
    LET r == IF exists(f, dir) THEN Fail(f, "EEXIST") ELSE mkdir(f, dir) IN
    IF r.err # "" THEN Stepped(Done(t, Caught(r.err)), r.fs)
    ELSE Stepped(Goto(t, next), r.fs)

\* await Deno.mkdir(dir, { recursive: true }) inside the try block
MkdirStep(t, f, dir, next) ==
    LET r == mkdir(f, dir) IN
    IF r.err # "" THEN Stepped(Done(t, Caught(r.err)), r.fs)
    ELSE Stepped(Goto(t, next), r.fs)

SymlinkStep(t, f) ==
    LET resolvedSrc  == resolvePath(t.a.src)
        resolvedDest == resolvePath(t.a.dest)
        destDir      == dirname(resolvedDest)
    IN
    CASE t.pc = "start" ->
            Stepped([Goto(t, "destExists") EXCEPT !.srcExists = exists(f, resolvedSrc)], f)
      [] t.pc = "destExists" ->
            LET t1 == [t EXCEPT !.destExists = exists(f, resolvedDest)] IN
            IF t1.destExists THEN Stepped(Goto(t1, "realDest"), f)
            ELSE Stepped(SymlinkDecide(t1, FALSE), f)
      [] t.pc = "realDest" ->
            LET r == realPath(f, resolvedDest) IN
            IF IsErr(r) THEN Stepped(SymlinkDecide(t, FALSE), f)
            ELSE Stepped([Goto(t, "realSrc") EXCEPT !.realDest = r], f)
      [] t.pc = "realSrc" ->
            LET r == realPath(f, resolvedSrc) IN
            Stepped(SymlinkDecide(t, ~IsErr(r) /\ t.realDest = r), f)
      [] t.pc = "existsDir" ->
            Stepped(Goto(t, IF exists(f, destDir) THEN "existsDest" ELSE "mkdir"), f)
      [] t.pc = "mkdir" -> MkdirStep(t, f, destDir, "existsDest")
      [] t.pc = "existsDest" ->
            Stepped(Goto(t, IF exists(f, resolvedDest) THEN "remove" ELSE "symlink"), f)
      [] t.pc = "remove" ->
            LET r == remove(f, resolvedDest, TRUE) IN
            IF r.err # "" THEN Stepped(Done(t, Caught(r.err)), r.fs)
            ELSE Stepped(Goto(t, "symlink"), r.fs)
      [] t.pc = "symlink" ->
            LET r == symlink(f, resolvedSrc, resolvedDest) IN
            IF r.err # "" THEN Stepped(Done(t, Caught(r.err)), r.fs)
            ELSE Stepped(Done(t, SuccessResult), r.fs)

\* files written by a task carry the modification time 0
DownloadStep(t, f) ==
    LET a == t.a
        resolvedDest == resolvePath(a.dest)
        dir == dirname(resolvedDest)
    IN
    CASE t.pc = "start" ->
            IF exists(f, resolvedDest) /\ ~a.overwrite
            THEN Stepped(Done(t, Result(Error, "Destination already exists", a.dest)), f)
            ELSE Stepped(Goto(t, "head"), f)
      [] t.pc = "head" ->
            IF stub = "fetch" \/ a.url.head = "throw"
            THEN Stepped(Done(t, Result(Error, "Failed to check URL", <<>>)), f)
            ELSE IF a.url.head # "ok"
            THEN Stepped(Done(t, Result(Error, "URL is not available", <<>>)), f)
            ELSE Stepped(Goto(t, "destExists"), f)
      [] t.pc = "destExists" ->
            IF exists(f, resolvedDest) /\ a.timestamping /\ a.url.lmKind = "date"
            THEN Stepped(Goto(t, "stat"), f)
            ELSE Stepped(Goto(t, "existsDir"), f)
      [] t.pc = "stat" ->
            LET loc == statLoc(f, resolvedDest) IN
            IF ~IsErr(loc) /\ entryAt(f, loc).mtime >= a.url.lmTime
            THEN Stepped(Done(t, Result(Skip, "Local file is up-to-date.", <<>>)), f)
            ELSE Stepped(Goto(t, "existsDir"), f)
      [] t.pc = "existsDir" ->
            Stepped(Goto(t, IF exists(f, dir) THEN "get" ELSE "mkdir"), f)
      [] t.pc = "mkdir" -> MkdirStep(t, f, dir, "get")
      [] t.pc = "get" ->
            IF a.url.get = "throw" THEN Stepped(Done(t, Caught("fetch")), f)
            ELSE IF a.url.get # "ok"
            THEN Stepped(Done(t, Result(Error, "Failed to fetch", <<>>)), f)
            ELSE Stepped(Goto(t, "arrayBuffer"), f)
      [] t.pc = "arrayBuffer" -> Stepped(Goto(t, "writeFile"), f)
      [] t.pc = "writeFile" ->
            LET r == writeFile(f, resolvedDest, a.url.body, 0) IN
            IF r.err # "" THEN Stepped(Done(t, Caught(r.err)), r.fs)
            ELSE Stepped(Done(t, SuccessResult), r.fs)

RemoveStep(t, f) ==
    LET a == t.a
        resolvedPath == resolvePath(a.path)
    IN
    CASE t.pc = "start" ->
            IF ~exists(f, resolvedPath)
            THEN Stepped(Done(t, Result(Skip, "File not found", a.path)), f)
            ELSE Stepped(Goto(t, "lstat"), f)
      [] t.pc = "lstat" ->
            LET info == lstat(f, resolvedPath) IN
            IF IsErr(info) THEN Stepped(Done(t, Rejected(info[2])), f)
            ELSE IF entryAt(f, info).kind = "dir" /\ ~a.recursive
            THEN Stepped(Done(t, Result(Error,
                     "Path is a directory (use recursive option to remove)", a.path)), f)
            ELSE Stepped(Goto(t, "remove"), f)
      [] t.pc = "remove" ->
            LET r == remove(f, resolvedPath, a.recursive) IN
            IF r.err # "" THEN Stepped(Done(t, Caught(r.err)), r.fs)
            ELSE Stepped(Done(t, SuccessResult), r.fs)

TaskStep(t, f) ==
    CASE t.a.class = "RemoveAction"   -> RemoveStep(t, f)
      [] t.a.class = "SymlinkAction"  -> SymlinkStep(t, f)
      [] t.a.class = "DownloadAction" -> DownloadStep(t, f)

RaceActs ==
    {RemoveAction(p, r) : p \in {<<"~", "d">>, <<"~", "d", "f">>, <<"~", "s", "g">>},
                          r \in BOOLEAN}
    \cup {SymlinkAction(s, d, o) : s \in {<<"~", "s">>, <<"~", "s", "f">>},
                                   d \in {<<"~", "d">>, <<"~", "d", "f">>, <<"~", "d", "g">>},
                                   o \in BOOLEAN}
    \cup {DownloadAction(u, d, o, FALSE) :
            u \in {Url("ok", "none", 0, "ok", 1), Url("ok", "none", 0, "throw", 1)},
            d \in {<<"~", "d", "f">>, <<"~", "d", "g">>, <<"~", "s", "g">>},
            o \in BOOLEAN}
    \cup {DownloadAction(Url("ok", "date", 0, "ok", 1), <<"~", "d", "g">>, TRUE, TRUE)}

\* the resolved paths an action is configured with
ConfiguredPaths(a) ==
    CASE a.class = "RemoveAction"   -> {resolvePath(a.path)}
      [] a.class = "SymlinkAction"  -> {resolvePath(a.src), resolvePath(a.dest)}
      [] a.class = "DownloadAction" -> {resolvePath(a.dest)}

\* no path of one action is a path of the other, or lies below one
Unrelated(a, b) ==
    \A p \in ConfiguredPaths(a), q \in ConfiguredPaths(b) :
        ~IsPrefix(p, q) /\ ~IsPrefix(q, p)

\* directories and symlinks sit in the home directory, and a symlink at ~/d/f
RaceFS ==
    {f \in [RaceUniverse -> {NoEntry, DirEntry, File(1, 0), Link(PS)}] :
        /\ WellFormed(f)
        /\ \A p \in {PSF, PSG, PDG} : f[p].kind \in {"none", "file"}
        /\ f[PDF].kind # "dir"}

InitRace ==
    /\ HOME = HomeDir
    /\ stub = "none"
    /\ act = DummyAction("none")
    /\ fs \in RaceFS
    /\ hist = <<>>
    /\ actions = <<>>
    /\ reverts = <<>>
    /\ tasks \in {<<NewTask(p[1], fs), NewTask(p[2], fs)>> :
                    p \in {q \in RaceActs \X RaceActs : Unrelated(q[1], q[2])}}

\* the scheduler resumes one of the suspended calls
Resume ==
    \E i \in DOMAIN tasks :
        /\ tasks[i].pc # "done"
        /\ LET o == TaskStep(tasks[i], fs) IN
            /\ fs' = o.fs
            /\ tasks' = [tasks EXCEPT ![i] = o.t]
        /\ UNCHANGED <<HOME, stub, act, hist, actions, reverts>>

SpecRace == InitRace /\ [][Resume]_vars

-----------------------------------------------------------------------------
(* Contention for one destination: a Symlink action applied once or twice at *)
(* the same time, and another actor that creates an entry at the destination *)
(* while a call is in flight.                                                *)

InitContend ==
    /\ HOME = HomeDir
    /\ stub = "none"
    /\ act \in {a \in RaceActs : a.class = "SymlinkAction"}
    /\ fs \in {f \in [RaceUniverse -> {NoEntry, DirEntry, File(1, 0), Link(PS), Link(PSG)}] :
                /\ WellFormed(f)
                /\ \A p \in {PSF, PSG, PDG} : f[p].kind \in {"none", "file"}
                /\ f[PDF].kind # "dir"}
    /\ hist = <<>>
    /\ actions = <<>>
    /\ reverts = <<>>
    /\ tasks \in {<<NewTask(act, fs)>>, <<NewTask(act, fs), NewTask(act, fs)>>}

\* another process creates a file or a directory where nothing is, at the
\* action's destination; the call record keeps what it created and where
Intrude ==
    /\ hist = <<>>
    /\ \E i \in DOMAIN tasks : tasks[i].pc # "done"
    /\ LET d    == resolvePath(act.dest)
           ploc == statLoc(fs, dirname(d))
       IN  /\ lstatLoc(fs, d) = Err("ENOENT")
           /\ ~IsErr(ploc)
           /\ entryAt(fs, ploc).kind = "dir"
           /\ \E e \in {File(NumData, 0), DirEntry} :
                /\ fs' = [fs EXCEPT ![Append(ploc, Last(d))] = e]
                /\ hist' = <<[op |-> "create", path |-> Append(ploc, Last(d)),
                              entry |-> e, before |-> fs, during |-> tasks]>>
    /\ UNCHANGED <<HOME, stub, act, actions, reverts, tasks>>

SpecContend == InitContend /\ [][Resume \/ Intrude]_vars

-----------------------------------------------------------------------------
(* Properties *)

Calls == 1..Len(hist)
\* the filesystem as call k left it
After(k) == IF k = Len(hist) THEN fs ELSE hist[k + 1].before
IsCall(k, op, class) == hist[k].op = op /\ hist[k].on.class = class
ActionClasses == {"RemoveAction", "SymlinkAction", "DownloadAction", "CommandAction",
                  "RevertibleCommandAction"}
\* nothing at the path itself, not even a dangling link
Absent1(f, p) == IsErr(lstatLoc(f, p))

\* C1: an apply() whose preflight (the result plan() gives on the same state) is
\* Skip or Error returns exactly that result, leaves the filesystem as it was and
\* spawns nothing, for every action kind, with or without a plan() before it.
C1_ApplyShortCircuits ==
    \A k \in Calls :
        LET c == hist[k] pre == plan(c.on, c.before).result IN
        (c.op = "apply" /\ c.on.class \in ActionClasses /\ pre.status # Success)
            => /\ c.result = pre
               /\ After(k) = c.before
               /\ ~c.fx.spawn
               /\ ~c.fx.get

C1_Witness ==
    /\ Len(hist) = 2
    /\ IsCall(1, "plan", "SymlinkAction") /\ hist[1].result.status = Skip
    /\ IsCall(2, "apply", "SymlinkAction") /\ hist[2].result.status = Skip

\* C2: plan() of every action kind leaves every entry of the filesystem as it
\* was, spawns no command and issues no GET, however often it is called.
C2_PlanIsReadOnly ==
    \A k \in Calls :
        hist[k].op = "plan"
            => /\ After(k) = hist[k].before
               /\ ~hist[k].fx.spawn
               /\ ~hist[k].fx.get

C2_Witness ==
    /\ Len(hist) = 2
    /\ IsCall(1, "plan", "RemoveAction") /\ hist[1].result.status = Success
    /\ IsCall(2, "plan", "RemoveAction")

\* the input positions holding a revertible action
RevertibleAt == {i \in 1..Len(actions) : isRevertibleAction(actions[i])}

\* C3: getRevertActions returns one revert action per revertible input and nothing
\* else, the revert of the j-th revertible input counted from the end standing at
\* position j; the empty input gives the empty output.
C3_RevertActionsReversed ==
    hist # <<>> =>
        /\ Len(reverts) = Cardinality(RevertibleAt)
        /\ \A i \in RevertibleAt :
              reverts[Cardinality({j \in RevertibleAt : j >= i})] = getRevertAction(actions[i])
        /\ (actions = <<>> => reverts = <<>>)

C3_Witness ==
    /\ hist # <<>>
    /\ Len(actions) = 3
    /\ isRevertibleAction(actions[1]) /\ ~isRevertibleAction(actions[2])
    /\ isRevertibleAction(actions[3])
    /\ actions[1] # actions[3]
    /\ reverts = <<getRevertAction(actions[3]), getRevertAction(actions[1])>>

C5_RemoveDirNeedsRecursive ==
    \A k \in Calls :
        LET c == hist[k] p == resolvePath(c.on.path) IN
        (/\ c.on.class = "RemoveAction" /\ ~c.on.recursive
         /\ exists(c.before, p)
         /\ entryAt(c.before, lstatLoc(c.before, p)).kind = "dir")
            => c.result.status = Error /\ After(k) = c.before

C5_Witness ==
    /\ Len(hist) = 2
    /\ IsCall(1, "plan", "RemoveAction") /\ IsCall(2, "apply", "RemoveAction")
    /\ ~act.recursive
    /\ hist[2].result.status = Error
    /\ resolvePath(act.path) = PD
    /\ fs[PD].kind = "dir" /\ fs[PDF].kind = "dir" /\ fs[PDFF].kind = "file"

\* C6: on a target that exists and is not a directory, or is one with
\* recursive=true, plan() returns Success and changes nothing; apply() returns
\* Success, after which nothing is at the target path nor below it, and every
\* entry outside the target is as before.
C6_RemoveDeletesTarget ==
    \A k \in Calls :
        LET c   == hist[k]
            p   == resolvePath(c.on.path)
            loc == lstatLoc(c.before, p)
        IN
        (/\ c.on.class = "RemoveAction"
         /\ exists(c.before, p)
         /\ (entryAt(c.before, loc).kind # "dir" \/ c.on.recursive))
            => /\ c.result.status = Success
               /\ c.op = "plan" => After(k) = c.before
               /\ c.op = "apply" =>
                    /\ Absent1(After(k), p)
                    /\ \A q \in Universe :
                          IF IsPrefix(loc, q) THEN After(k)[q].kind = "none"
                          ELSE After(k)[q] = c.before[q]

C6_Witness ==
    /\ Len(hist) = 2
    /\ IsCall(1, "plan", "RemoveAction") /\ IsCall(2, "apply", "RemoveAction")
    /\ act.recursive
    /\ hist[2].result.status = Success
    /\ resolvePath(act.path) = PD
    /\ hist[2].before[PD].kind = "dir" /\ hist[2].before[PDFF].kind = "file"
    /\ hist[2].before[PS].kind = "dir" /\ fs[PS].kind = "dir"
    /\ fs[PD].kind = "none"

\* destination exists and has the same canonical real path as the source
SameRealPath(f, a) ==
    LET d == realPath(f, resolvePath(a.dest))
        s == realPath(f, resolvePath(a.src))
    IN  ~IsErr(d) /\ ~IsErr(s) /\ d = s

\* C7: when the destination exists and resolves to the real path the source
\* resolves to, plan() and apply() of a Symlink return Skip and change nothing,
\* whatever the overwrite flag.
C7_SymlinkAlreadyCorrectSkips ==
    \A k \in Calls :
        LET c == hist[k] IN
        (c.on.class = "SymlinkAction" /\ SameRealPath(c.before, c.on))
            => c.result.status = Skip /\ After(k) = c.before

C7_Witness ==
    /\ Len(hist) = 2
    /\ IsCall(1, "plan", "SymlinkAction") /\ IsCall(2, "apply", "SymlinkAction")
    /\ hist[2].result.status = Skip
    /\ act.overwrite
    /\ resolvePath(act.src) = PS /\ resolvePath(act.dest) = PD
    /\ fs[PD] = Link(PS) /\ fs[PS].kind = "file"

LinkedToSource(f, a) ==
    LET loc == lstatLoc(f, resolvePath(a.dest)) IN
    /\ ~IsErr(loc)
    /\ entryAt(f, loc).kind = "link"
    /\ SameRealPath(f, a)

\* C9: after a Symlink apply() that returned Success the destination is a symlink
\* whose real path is the source's real path.
C9_SuccessMeansLinked ==
    \A k \in Calls :
        (IsCall(k, "apply", "SymlinkAction") /\ hist[k].result.status = Success)
            => LinkedToSource(After(k), hist[k].on)

\* C10: the revert action of a Symlink is Remove(dest, recursive=false); after a
\* successful apply() of the Symlink followed by apply() of that revert action
\* nothing is at the destination and every entry the source held before, other
\* than the destination itself, is as it was.
C10_SymlinkRevertRoundTrip ==
    act.class = "SymlinkAction" =>
        /\ getRevertAction(act) = RemoveAction(act.dest, FALSE)
        /\ (/\ Len(hist) = 2
            /\ IsCall(1, "apply", "SymlinkAction") /\ hist[1].result.status = Success
            /\ IsCall(2, "apply", "RemoveAction"))
            => LET d    == resolvePath(act.dest)
                   dloc == lstatLoc(hist[1].before, d)
                   sloc == realPath(hist[1].before, resolvePath(act.src))
               IN  /\ Absent1(fs, d)
                   /\ \A q \in Universe :
                        (/\ IsPrefix(sloc, q)
                         /\ hist[1].before[q].kind # "none"
                         /\ (IsErr(dloc) \/ ~IsPrefix(dloc, q)))
                            => fs[q] = hist[1].before[q]

-----------------------------------------------------------------------------
(* Download *)

\* what a read of the path finds, links followed
Content(f, p) == IF exists(f, p) THEN entryAt(f, statLoc(f, p)) ELSE NoEntry
IsFileAt(f, p) == Content(f, p).kind = "file"
IsDownloadCall(k) == hist[k].on.class = "DownloadAction"

HasRemoteDate(k) ==
    LET c == hist[k] IN
    /\ IsDownloadCall(k)
    /\ c.on.timestamping
    /\ IsFileAt(c.before, resolvePath(c.on.dest))
    /\ c.on.url.head = "ok"
    /\ c.on.url.lmKind = "date"

\* C12: with timestamping=true, whatever overwrite is, a destination file whose
\* modification time is >= the remote Last-Modified time makes plan() and apply()
\* return Skip and leaves the filesystem unchanged.
C12_UpToDateSkips ==
    \A k \in Calls :
        LET c == hist[k] IN
        (/\ HasRemoteDate(k)
         /\ Content(c.before, resolvePath(c.on.dest)).mtime >= c.on.url.lmTime)
            => c.result.status = Skip /\ After(k) = c.before

\* C13: with timestamping=true, whatever overwrite is, a destination file older
\* than the remote Last-Modified time makes plan() return Success without a
\* change, and apply() return Success with the fetched bytes at the destination.
C13_OutdatedDownloads ==
    \A k \in Calls :
        LET c == hist[k] d == resolvePath(c.on.dest) IN
        (/\ HasRemoteDate(k)
         /\ Content(c.before, d).mtime < c.on.url.lmTime
         /\ c.on.url.get = "ok")
            => /\ c.result.status = Success
               /\ c.op = "plan" => After(k) = c.before
               /\ c.op = "apply" =>
                    IsFileAt(After(k), d) /\ Content(After(k), d).data = c.on.url.body

\* C14: with timestamping=true and a destination file, a HEAD response that is OK
\* but has no Last-Modified header, or an unparsable one, makes plan() return
\* Success and apply() replace the destination's bytes with the fetched bytes.
C14_NoLastModifiedFailsOpen ==
    \A k \in Calls :
        LET c == hist[k] d == resolvePath(c.on.dest) IN
        (/\ IsDownloadCall(k)
         /\ c.on.timestamping
         /\ IsFileAt(c.before, d)
         /\ c.on.url.head = "ok"
         /\ c.on.url.lmKind \in {"none", "invalid"}
         /\ c.on.url.get = "ok")
            => /\ c.result.status = Success
               /\ c.op = "plan" => After(k) = c.before
               /\ c.op = "apply" =>
                    IsFileAt(After(k), d) /\ Content(After(k), d).data = c.on.url.body

C16_SuccessMeansDownloaded ==
    \A k \in Calls :
        LET c == hist[k] d == resolvePath(c.on.dest) IN
        IsCall(k, "apply", "DownloadAction") =>
            /\ c.result.status = Success =>
                  /\ IsFileAt(After(k), d)
                  /\ Content(After(k), d).data = c.on.url.body
                  /\ c.on.url.get = "ok"
            /\ (c.fx.get /\ c.on.url.get = "notok") =>
                  /\ c.result.status = Error
                  /\ Content(After(k), d) = Content(c.before, d)

\* a download into missing directories, then one over the file just written
C16_Witness ==
    /\ Len(hist) = 2
    /\ IsCall(1, "apply", "DownloadAction") /\ IsCall(2, "apply", "DownloadAction")
    /\ hist[1].result.status = Success /\ hist[2].result.status = Success
    /\ act.overwrite
    /\ resolvePath(act.dest) = PDFF
    /\ Absent1(hist[1].before, PD)
    /\ fs[PD].kind = "dir" /\ fs[PDF].kind = "dir"
    /\ fs[PDFF].kind = "file" /\ fs[PDFF].data = act.url.body

\* C17: the revert action of a Download is Remove(path = the destination as given,
\* recursive=false) in every state, before and after apply(), whatever url,
\* overwrite and timestamping are.
C17_DownloadRevertIsRemove ==
    /\ act.class = "DownloadAction" => getRevertAction(act) = RemoveAction(act.dest, FALSE)
    /\ \A k \in Calls :
          hist[k].on.class = "RemoveAction" => hist[k].on = RemoveAction(act.dest, FALSE)

C17_Witness ==
    /\ Len(hist) = 2
    /\ IsCall(1, "apply", "DownloadAction") /\ hist[1].result.status = Success
    /\ IsCall(2, "apply", "RemoveAction") /\ hist[2].result.status = Success
    /\ act.dest # resolvePath(act.dest)
    /\ act.timestamping /\ act.overwrite

-----------------------------------------------------------------------------
(* Command *)

IsCommandCall(k) == hist[k].on.class \in {"CommandAction", "RevertibleCommandAction"}
\* `which` finds the executable command[0] names, its home reference expanded
Resolvable(a) == expandTilde(a.command[1]) \in Installed

\* C18: when command[0] is not resolvable as an executable, plan() and apply() of
\* the Command return Error 'Command not found' naming command[0] as given and
\* nothing is spawned; the configured command is spawned only by an apply() on a
\* resolvable command.
C18_MissingCommandNeverRuns ==
    \A k \in Calls :
        LET c == hist[k] IN
        IsCommandCall(k) =>
            /\ ~Resolvable(c.on) =>
                  /\ c.result = Result(Error, "Command not found", c.on.command[1])
                  /\ ~c.fx.spawn
                  /\ After(k) = c.before
            /\ c.fx.spawn => c.op = "apply" /\ Resolvable(c.on)

C18_Witness ==
    /\ Len(hist) = 2
    /\ IsCall(1, "plan", "CommandAction") /\ IsCall(2, "apply", "CommandAction")
    /\ act.command[1] = <<"nope">>
    /\ hist[1].result.status = Error /\ hist[2].result = hist[1].result

\* C19: an apply() of a Command whose process was spawned and exited returns
\* Success exactly when the exit code is 0 and Error for every other exit code,
\* whatever the output modes and whatever the process wrote.
C19_ExitCodeDecidesStatus ==
    \A k \in Calls :
        LET c == hist[k] IN
        (IsCommandCall(k) /\ c.op = "apply" /\ c.fx.spawn)
            => c.result.status = IF c.io.proc.code = 0 THEN Success ELSE Error

\* exit code 0 with text on a captured stderr, then a nonzero exit code
C19_Witness ==
    /\ Len(hist) = 2
    /\ IsCall(1, "apply", "CommandAction") /\ IsCall(2, "apply", "CommandAction")
    /\ act.stderr = Capture
    /\ hist[1].io.proc.code = 0 /\ trim(hist[1].io.proc.stderr) # ""
    /\ hist[1].result.status = Success
    /\ hist[2].io.proc.code = 255 /\ hist[2].result.status = Error

\* the labelled section of one stream
Section(label, mode, text) ==
    IF mode = Capture /\ trim(text) # "" THEN <<label, trim(text)>> ELSE <<>>

\* C20: the detail of a Command apply() whose process ran holds a 'stdout:'
\* section iff stdout is captured and its trimmed text is non-empty, a 'stderr:'
\* section iff stderr is captured and its trimmed text is non-empty, stdout first;
\* with no section the detail is undefined.
C20_DetailFromCapturedStreams ==
    \A k \in Calls :
        LET c == hist[k]
            sections == Section("stdout:", c.on.stdout, c.io.proc.stdout)
                        \o Section("stderr:", c.on.stderr, c.io.proc.stderr)
        IN
        (IsCommandCall(k) /\ c.op = "apply" /\ c.fx.spawn)
            => c.result.detail = IF sections = <<>> THEN NoDetail
                                 ELSE [msg |-> "output", arg |-> sections]

\* blank text on a captured stdout gives no detail; text on both gives both
C20_Witness ==
    /\ Len(hist) = 2
    /\ IsCall(1, "apply", "CommandAction") /\ IsCall(2, "apply", "CommandAction")
    /\ act.stdout = Capture /\ act.stderr = Capture
    /\ hist[1].fx.spawn /\ hist[1].io.proc.stdout = " " /\ hist[1].io.proc.stderr = ""
    /\ hist[1].result.detail = NoDetail
    /\ hist[2].fx.spawn
    /\ hist[2].result.detail.arg = <<"stdout:", "hi", "stderr:", "hi">>

-----------------------------------------------------------------------------
(* Factories and reverts *)

\* C21: every revert action of a Command built with a revert command is a plain
\* CommandAction running the revert command with the stdout mode, stderr mode,
\* env and cwd of the original, and does not itself expose getRevertAction.
C21_CommandRevertIsPlainCommand ==
    (hist # <<>> /\ hist[1].op = "command" /\ hist[1].args.revertCommand # NoVector)
        => LET p == hist[1].args IN
           /\ isRevertibleAction(act)
           /\ \A i \in 1..Len(reverts) :
                /\ reverts[i] = CommandAction(p.revertCommand, p.stdout, p.stderr, p.env, p.cwd)
                /\ reverts[i].class = "CommandAction"
                /\ ~isRevertibleAction(reverts[i])

C21_Witness ==
    /\ hist # <<>> /\ hist[1].op = "command"
    /\ hist[1].args.cwd # Undefined /\ hist[1].args.env # <<>>
    /\ hist[1].args.stdout = Inherit /\ hist[1].args.stderr = Capture
    /\ Len(reverts) = 2
    /\ reverts[1].command = <<<<"nope">>, <<"-v">>>>

\* C22: an action built by the command factory passes isRevertibleAction iff a
\* revertCommand was given, and getRevertActions holds its revert exactly then;
\* a Remove never passes the check, a Symlink and a Download always do.
C22_RevertibleIffRevertCommand ==
    hist # <<>> =>
        LET p == hist[1].args IN
        /\ hist[1].op = "command" =>
              /\ isRevertibleAction(act) <=> p.revertCommand # NoVector
              /\ Len(hist) = 2 =>
                    actions = IF p.revertCommand = NoVector THEN <<>>
                              ELSE <<CommandAction(p.revertCommand, p.stdout, p.stderr,
                                                   p.env, p.cwd)>>
        /\ act.class = "RemoveAction" => ~isRevertibleAction(act)
        /\ act.class \in {"SymlinkAction", "DownloadAction"} => isRevertibleAction(act)
        /\ (hist[1].op = "new" /\ Len(hist) = 2) => Len(actions) = 1 <=> act.class # "RemoveAction"

C22_Witness ==
    /\ Len(hist) = 2 /\ hist[1].op = "command"
    /\ hist[1].args.revertCommand # NoVector
    /\ Len(actions) = 1
    /\ isRevertibleAction(act) /\ ~isRevertibleAction(actions[1])

-----------------------------------------------------------------------------
(* Failures *)

\* C23: no plan() or apply() call throws or rejects: whatever platform function
\* fails, the call resolves to a result whose status is Success, Error or Skip.
C23_NothingThrows ==
    \A k \in Calls : hist[k].result.status \in {Success, Error, Skip}

\* C24: whenever apply() of a Remove, Symlink or Download returns Error, the
\* filesystem is what it was before that call: no parent directory was left
\* behind and no pre-existing destination was removed.
C24_ErrorLeavesFilesystem ==
    \A k \in Calls :
        LET c == hist[k] IN
        (/\ c.op = "apply"
         /\ c.on.class \in {"RemoveAction", "SymlinkAction", "DownloadAction"}
         /\ c.result.status = Error)
            => After(k) = c.before

\* C25: every result with status Error, of plan() or apply() of any action, has
\* a detail: it is never undefined and never the empty text.
C25_ErrorHasDetail ==
    \A k \in Calls :
        hist[k].result.status = Error
            => hist[k].result.detail # NoDetail /\ hist[k].result.detail.msg # ""

-----------------------------------------------------------------------------
(* Paths *)

\* C28: expandTilde maps '~' to HOME and '~/rest' to HOME joined with rest, and
\* returns every other path ('', absolute, relative, '~other...') unchanged; with
\* HOME undefined it returns every path unchanged. It always returns a path.
C28_ExpandTilde ==
    \A k \in Calls :
        LET path == hist[k].args
            out  == hist[k].result
        IN
        hist[k].op = "expandTilde" =>
            /\ HOME = Undefined => out = path
            /\ (HOME # Undefined /\ path = <<"~">>) => out = HOME
            /\ (HOME # Undefined /\ Len(path) >= 2 /\ path[1] = "~")
                  => out = join(HOME, Tail(path)) /\ IsPrefix(HOME, out)
            /\ (path = <<>> \/ path[1] # "~") => out = path

C28_Witness ==
    /\ Len(hist) = 2
    /\ HOME = <<"", "r", "u">>
    /\ hist[1].args = <<"~", "a", "b">> /\ hist[1].result = <<"", "r", "u", "a", "b">>
    /\ hist[2].args = <<"~other", "x">> /\ hist[2].result = <<"~other", "x">>

-----------------------------------------------------------------------------
(* Revert round trips *)

\* C29: after an apply() of a Download that returned Success, apply() of its
\* revert action returns Success and leaves nothing at the destination; the
\* directories above the destination, those the download created included, stay.
C29_DownloadRevertRoundTrip ==
    \A k \in Calls :
        (/\ k > 1
         /\ IsCall(k - 1, "apply", "DownloadAction")
         /\ hist[k - 1].result.status = Success
         /\ IsCall(k, "apply", "RemoveAction"))
            => LET d == resolvePath(hist[k - 1].on.dest) IN
               /\ hist[k].result.status = Success
               /\ Absent1(After(k), d)
               /\ \A q \in Universe :
                    (IsPrefix(q, d) /\ q # d)
                        => After(k)[q] = hist[k].before[q] /\ After(k)[q].kind = "dir"

C29_Witness ==
    /\ Len(hist) = 2
    /\ IsCall(1, "apply", "DownloadAction") /\ hist[1].result.status = Success
    /\ IsCall(2, "apply", "RemoveAction") /\ hist[2].result.status = Success
    /\ resolvePath(act.dest) = PDFF
    /\ Absent1(hist[1].before, PD)
    /\ hist[2].before[PDFF].kind = "file"
    /\ fs[PD].kind = "dir" /\ fs[PDF].kind = "dir" /\ fs[PDFF].kind = "none"

\* C30: when apply() of a Symlink or Download returned Error or Skip, apply() of
\* the action's revert action leaves the filesystem as it was before the
\* original apply().
C30_RevertRemovesOnlyCreated ==
    \A k \in Calls :
        (/\ k > 1
         /\ hist[k - 1].op = "apply"
         /\ hist[k - 1].on.class \in {"SymlinkAction", "DownloadAction"}
         /\ hist[k - 1].result.status \in {Error, Skip}
         /\ IsCall(k, "apply", "RemoveAction"))
            => After(k) = hist[k - 1].before

\* C26: getRevertAction() can be called any number of times, before or after
\* plan() and apply(): every call returns a reference to a new instance, distinct
\* from the original and from every instance returned before, whose
\* configuration is the inverse built from the original's constructor fields
\* (a Remove of the destination as written for Symlink and Download, a plain
\* Command of revertCommand with the same stdout, stderr, env and cwd for a
\* revertible Command); the call leaves the filesystem alone, and no call of
\* getRevertAction(), plan() or apply() changes the configuration of the
\* original or of an instance already returned.
C26_ReturnsFreshEqualInstances ==
    \A k \in Calls :
        hist[k].op = "getRevertAction" =>
            LET r == hist[k].result IN
            /\ r \in DOMAIN actions
            /\ r # OriginalRef
            /\ \A j \in Calls :
                 (j # k /\ hist[j].op = "getRevertAction") => hist[j].result # r
            /\ actions[r] =
                 IF act.class = "RevertibleCommandAction"
                 THEN CommandAction(act.revertCommand, act.stdout, act.stderr,
                                    act.env, act.cwd)
                 ELSE RemoveAction(act.dest, FALSE)
            /\ After(k) = hist[k].before

C26_ConfigurationIsFixed ==
    /\ act' = act
    /\ \A i \in DOMAIN actions : i \in DOMAIN actions' /\ actions'[i] = actions[i]

C26_GetRevertActionRepeatable ==
    /\ [](C26_ReturnsFreshEqualInstances /\ actions[OriginalRef] = act)
    /\ [][C26_ConfigurationIsFixed]_vars

C26_Witness ==
    /\ Len(hist) = 2
    /\ IsCall(1, "apply", "SymlinkAction") /\ hist[1].result.status = Success
    /\ hist[2].op = "getRevertAction"
    /\ fs # hist[1].before
    /\ actions[hist[2].result] = RemoveAction(<<"~", "d">>, FALSE)

\* what two apply() calls made one after the other on filesystem f give
Sequential(a, b, f) ==
    LET o1 == apply(a, f, Input(0, NoProc))
        o2 == apply(b, o1.fs, Input(0, NoProc))
    IN  [first |-> o1.result, second |-> o2.result, fs |-> o2.fs]

BothDone == Len(tasks) = 2 /\ tasks[1].pc = "done" /\ tasks[2].pc = "done"

\* the interleaved run ended as both sequential runs end
AsSequential ==
    LET a == tasks[1].a
        b == tasks[2].a
        f == tasks[1].before
    IN  /\ [first |-> tasks[1].result, second |-> tasks[2].result, fs |-> fs]
            = Sequential(a, b, f)
        /\ [first |-> tasks[2].result, second |-> tasks[1].result, fs |-> fs]
            = Sequential(b, a, f)

NoLinkOnPaths(f, a) ==
    \A p \in ConfiguredPaths(a), q \in DOMAIN f :
        IsPrefix(q, p) => f[q].kind # "link"

ExistsAnswers(f, p) == ~IsErr(statLoc(f, p)) \/ statLoc(f, p) = Err("ENOENT")

\* C33: for a Symlink, on a filesystem that does not change between the calls
\* and with no platform function failing by injection, an apply() that follows
\* a plan() that returned Success returns Success, whether the destination is
\* absent, a file, a directory, a symlink to an existing target or a dangling
\* symlink, and whatever overwrite is.
C33_SymlinkPlanApplyAgree ==
    \A k \in Calls :
        (/\ k > 1
         /\ stub = "none"
         /\ IsCall(k - 1, "plan", "SymlinkAction")
         /\ hist[k - 1].result.status = Success
         /\ IsCall(k, "apply", "SymlinkAction")
         /\ hist[k].before = hist[k - 1].before
         /\ ExistsAnswers(hist[k].before, resolvePath(hist[k].on.dest)))
            => hist[k].result.status = Success

\* C34: after an apply() of a Remove that returned Skip or Success nothing is
\* left at the target path, not even a dangling symlink; a Skip is returned only
\* when nothing was there; and a symlink at the path is removed as a link, its
\* target left as it was. Checked where exists() answers for the path.
C34_RemoveLeavesNothing ==
    \A k \in Calls :
        (/\ IsCall(k, "apply", "RemoveAction")
         /\ hist[k].result.status \in {Skip, Success}
         /\ ExistsAnswers(hist[k].before, resolvePath(hist[k].on.path)))
            => LET p == resolvePath(hist[k].on.path)
                   b == hist[k].before
               IN  /\ Absent1(After(k), p)
                   /\ hist[k].result.status = Skip => Absent1(b, p)
                   /\ (~IsErr(lstatLoc(b, p)) /\ entryAt(b, lstatLoc(b, p)).kind = "link")
                        => \A q \in Universe : q # lstatLoc(b, p) => After(k)[q] = b[q]

\* C35: after an apply() of a Symlink that returned Success, the next plan() or
\* apply() of the same action returns Skip and leaves the filesystem as it was.
C35_SymlinkApplyIdempotent ==
    \A k \in Calls :
        (/\ k > 1
         /\ IsCall(k - 1, "apply", "SymlinkAction")
         /\ hist[k - 1].result.status = Success
         /\ hist[k].op \in {"plan", "apply"}
         /\ hist[k].on.class = "SymlinkAction")
            => /\ hist[k].result.status = Skip
               /\ After(k) = hist[k].before

C31_NoOverwriteNeverRemoves ==
    (/\ Len(tasks) = 1
     /\ ~tasks[1].a.overwrite
     /\ hist # <<>>)
        => fs[hist[1].path] = hist[1].entry

\* C32: two apply() calls of the same Symlink action in flight at once, with no
\* other actor, started where the preflight is Success (so the source exists):
\* however their steps interleave, in the end the destination is a symlink that
\* resolves to the source, at least one call returned Success, and each
\* returned Success, Skip or Error (none rejected).
C32_SameSymlinkTwice ==
    (/\ Len(tasks) = 2
     /\ BothDone
     /\ hist = <<>>
     /\ SymlinkPreflight(act, tasks[1].before).status = Success)
        => /\ LinkedToSource(fs, act)
           /\ \E i \in {1, 2} : tasks[i].result.status = Success
           /\ \A i \in {1, 2} : tasks[i].result.status \in {Success, Skip, Error}

====
